---- MODULE Spec2Model ----
(***************************************************************************)
(* RetroBell call control: the phone state machine (State.cpp), the hook   *)
(* switch debouncer (HookSwitch.cpp), the rotary dial decoder and number   *)
(* collector (RotaryDial.cpp), the ESP-NOW signalling and peer directory   *)
(* (Network.cpp) and the poll loop that ties them together (main.cpp).     *)
(***************************************************************************)
EXTENDS Integers, Naturals, Sequences, FiniteSets, TLC

(***************************************************************************)
(* Bounds of the model.                                                    *)
(***************************************************************************)
\* the time that passes between two observations of the clock: longer than
\* every debounce window, as long as the dial completion timeout
BigTick == 3000
\* the clock stops advancing after MaxTicks observations
MaxTicks == 2
MaxTime == MaxTicks * BigTick
\* the other phones have the numbers 1..MaxNumber
MaxNumber == 1
\* transport addresses are 1..MaxMac
MaxMac == 1
\* pulses counted during one rotation of the dial
MaxPulses == 1
\* the interrupt handlers count at most MaxCount pulses in one rotation
MaxCount == 10
\* the time between two observations of the clock by an interrupt handler:
\* as long as the longer of the two contact debounce windows
DialTick == 50
\* the interrupt handlers see the clock advance MaxDialTicks times
MaxDialTicks == 21
\* the time between two polls of the hook switch: half the debounce window
HookTick == 25
\* the hook switch is watched for MaxHookTicks polls
MaxHookTicks == 5

(***************************************************************************)
(* Program constants.                                                      *)
(***************************************************************************)
debounceDelay == 50
PULSE_DEBOUNCE_MS == 20
DIAL_DEBOUNCE_MS == 50
SAFETY_TIMEOUT_MS == 3000
DIAL_COMPLETE_TIMEOUT == 3000
MAX_DIGITS == 3
MAX_PEERS == 10
DISCOVERY_INTERVAL == 10000
NoPeer == -1
Broadcast == -1
\* sizeof(Message): enum + two ints + 200 bytes of payload
MessageSize == 4 + 4 + 4 + 200
\* unsigned long is 32 bits wide: a difference a - b with a < b wraps to
\* 2^32 - (b - a), which is at least 2^31 for every pair of times less than
\* 2^31 apart; the model holds it as the largest integer the checker has
Wrapped == 2147483647

PhoneState == {"IDLE", "OFF_HOOK", "DIALING", "CALLING", "RINGING",
               "IN_CALL", "CALL_FAILED", "CALL_BUSY"}
MessageType == {"MSG_DISCOVERY", "MSG_CALL_REQUEST", "MSG_CALL_ACCEPT",
                "MSG_CALL_REJECT", "MSG_CALL_BUSY", "MSG_CALL_END",
                "MSG_AUDIO_DATA"}
Level == {"LOW", "HIGH"}
ToneCalls == {"none", "stopTone", "playDialTone", "playRingbackTone",
              "playRingTone", "playErrorTone", "playBusyTone"}

Numbers == 1..MaxNumber
Macs == 1..MaxMac
TickSteps == {BigTick}
LoopSteps == {"hook", "rest"}

VARIABLES
  now,                    \* millis()
  pc,                     \* where loop() is: at handleHookSwitch or after it
  currentState,           \* State.cpp
  currentHookState, lastHookState, lastDebounceTime,    \* HookSwitch.cpp
  pulseCount, isDialing, digitReady, dialingTimeout,    \* RotaryDial.cpp
  lastDialedDigit, lastDialState, lastPulseState,
  lastPulseDebounce, lastDialDebounce,
  collectedNumber, lastDigitCollectedTime, isCollectingNumber,
  peers, currentCallPeer, lastDiscoveryTime,            \* Network.cpp
  toneRequest,            \* the call to the tone player made by the last step
  sent,                   \* messages handed to esp_now_send by the last step
  last,                   \* the last step: operation, input and state before
  currentConfig,          \* Configuration.cpp: the stored configuration
  ownAddress,             \* the transport address of this device
  hookPin,                \* the level at HOOK_SW_PIN
  pinSince,               \* when the level at the pin last changed
  pinEdges,               \* edges accepted since the level last changed
  pinPolled,              \* the pin was read since the last change or tick
  dialPlan,               \* pulse counts the user has still to dial
  parked,                 \* the second device while this one runs
  net,                    \* messages in flight between the two devices
  rotaryNow               \* now, the local of handleRotaryDial

hookVars == <<currentHookState, lastHookState, lastDebounceTime>>
dialVars == <<pulseCount, isDialing, digitReady, dialingTimeout,
              lastDialedDigit, lastDialState, lastPulseState,
              lastPulseDebounce, lastDialDebounce>>
collectVars == <<collectedNumber, lastDigitCollectedTime, isCollectingNumber>>
netVars == <<peers, currentCallPeer, lastDiscoveryTime>>
configVars == <<currentConfig, ownAddress>>
pinVars == <<hookPin, pinSince, pinEdges, pinPolled>>
sampleVars == <<rotaryNow>>
\* what lies outside the device that runs
worldVars == <<pinVars, dialPlan, parked, net>>
vars == <<now, pc, currentState, hookVars, dialVars, collectVars, netVars,
          toneRequest, sent, last, sampleVars, configVars, worldVars>>

\* this phone's configured number
getPhoneNumber == currentConfig.phoneNumber

\* unsigned 32-bit subtraction of two times
Sub32(a, b) == IF a >= b THEN a - b ELSE Wrapped

(***************************************************************************)
(* State.cpp                                                               *)
(***************************************************************************)
changeState(newState) ==
  IF newState = currentState THEN currentState ELSE newState

(***************************************************************************)
(* Network.cpp: peer directory and senders                                 *)
(***************************************************************************)
Message(type, from, to) == [type |-> type, fromNumber |-> from, toNumber |-> to]

\* index of the first registered record with this number, 0 when none
FindPeer(targetNumber) ==
  LET hits == {i \in 1..Len(peers) :
                 peers[i].registered /\ peers[i].number = targetNumber}
  IN IF hits = {} THEN 0 ELSE CHOOSE i \in hits : \A j \in hits : i <= j

\* index of the first record with this address, 0 when none
FindMac(mac) ==
  LET hits == {i \in 1..Len(peers) : peers[i].macAddress = mac}
  IN IF hits = {} THEN 0 ELSE CHOOSE i \in hits : \A j \in hits : i <= j

\* addPeerByMac without the search for a record of the address
addPeerByMac_AlwaysAppend(mac, phoneNumber, addOk) ==
  IF Len(peers) >= MAX_PEERS THEN peers
  ELSE IF ~addOk THEN peers
  ELSE Append(peers, [number |-> phoneNumber, macAddress |-> mac,
                      registered |-> TRUE])

\* addPeerByMac without the test of peerCount against MAX_PEERS
addPeerByMac_NoLimit(mac, phoneNumber, addOk) ==
  LET i == FindMac(mac)
  IN IF i # 0
       THEN [peers EXCEPT ![i].number = phoneNumber]
       ELSE IF ~addOk THEN peers
       ELSE Append(peers, [number |-> phoneNumber, macAddress |-> mac,
                           registered |-> TRUE])

addPeerByMac(mac, phoneNumber, addOk) ==
  LET i == FindMac(mac)
  IN IF i # 0
       THEN [peers EXCEPT ![i].number = phoneNumber]
       ELSE IF Len(peers) >= MAX_PEERS THEN peers
       ELSE IF ~addOk THEN peers
       ELSE Append(peers, [number |-> phoneNumber, macAddress |-> mac,
                           registered |-> TRUE])

\* each sender yields the messages passed to esp_now_send (with the address
\* they go to) and the new value of currentCallPeer
Packet(type, i, targetNumber) ==
  [mac |-> peers[i].macAddress, msg |-> Message(type, getPhoneNumber, targetNumber)]

\* sendCallRequest reporting success when the number has no record
sendCallRequest_OkWhenNotFound(targetNumber, sendOk) ==
  LET i == FindPeer(targetNumber)
  IN IF i = 0 THEN [out |-> <<>>, peer |-> targetNumber, ok |-> TRUE]
     ELSE IF sendOk
       THEN [out |-> <<Packet("MSG_CALL_REQUEST", i, targetNumber)>>,
             peer |-> targetNumber, ok |-> TRUE]
       ELSE [out |-> <<>>, peer |-> currentCallPeer, ok |-> FALSE]

sendCallRequest(targetNumber, sendOk) ==
  LET i == FindPeer(targetNumber)
  IN IF i = 0 THEN [out |-> <<>>, peer |-> currentCallPeer, ok |-> FALSE]
     ELSE IF sendOk
       THEN [out |-> <<Packet("MSG_CALL_REQUEST", i, targetNumber)>>,
             peer |-> targetNumber, ok |-> TRUE]
       ELSE [out |-> <<>>, peer |-> currentCallPeer, ok |-> FALSE]

sendCallAccept(targetNumber) ==
  LET i == FindPeer(targetNumber)
  IN IF i = 0 THEN [out |-> <<>>, peer |-> currentCallPeer]
     ELSE [out |-> <<Packet("MSG_CALL_ACCEPT", i, targetNumber)>>,
           peer |-> targetNumber]

sendCallBusy(targetNumber) ==
  LET i == FindPeer(targetNumber)
  IN IF i = 0 THEN [out |-> <<>>, peer |-> currentCallPeer]
     ELSE [out |-> <<Packet("MSG_CALL_BUSY", i, targetNumber)>>,
           peer |-> currentCallPeer]

\* sendCallEnd clearing the call peer without sending
sendCallEnd_Unsent(targetNumber) ==
  LET i == FindPeer(targetNumber)
  IN IF i = 0 THEN [out |-> <<>>, peer |-> currentCallPeer]
     ELSE [out |-> <<>>, peer |-> NoPeer]

sendCallEnd(targetNumber) ==
  LET i == FindPeer(targetNumber)
  IN IF i = 0 THEN [out |-> <<>>, peer |-> currentCallPeer]
     ELSE [out |-> <<Packet("MSG_CALL_END", i, targetNumber)>>,
           peer |-> NoPeer]

\* the record of a step kept in last
Event(op, type, from, to, edge) ==
  [op |-> op, type |-> type, fromNumber |-> from, toNumber |-> to,
   mac |-> 0, edge |-> edge, pre |-> currentState, prePeer |-> currentCallPeer]

Init ==
  /\ rotaryNow = 0
  /\ now = 0
  /\ pc = "hook"
  /\ currentState = "IDLE"
  /\ currentHookState = "LOW" /\ lastHookState = "LOW" /\ lastDebounceTime = 0
  /\ pulseCount = 0 /\ isDialing = FALSE /\ digitReady = FALSE
  /\ dialingTimeout = 0 /\ lastDialedDigit = -1
  /\ lastDialState = "HIGH" /\ lastPulseState = "HIGH"
  /\ lastPulseDebounce = 0 /\ lastDialDebounce = 0
  /\ collectedNumber = <<>> /\ lastDigitCollectedTime = 0
  /\ isCollectingNumber = FALSE
  /\ peers = <<>> /\ currentCallPeer = NoPeer /\ lastDiscoveryTime = 0
  /\ toneRequest = "none"
  /\ sent = <<>>
  /\ last = [op |-> "setup", type |-> "none", fromNumber |-> Broadcast,
             toNumber |-> Broadcast, mac |-> 0, edge |-> "none",
             pre |-> "IDLE", prePeer |-> NoPeer]
  /\ currentConfig = [phoneNumber |-> 0] /\ ownAddress = 0
  /\ hookPin = "LOW" /\ pinSince = 0 /\ pinEdges = 0 /\ pinPolled = TRUE
  /\ dialPlan = <<>>
  /\ parked = <<>>
  /\ net = {}

(***************************************************************************)
(* The clock.                                                              *)
(***************************************************************************)
Tick ==
  \E d \in TickSteps :
    /\ now + d <= MaxTime
    /\ now' = now + d
    /\ sent' = <<>>
    /\ toneRequest' = "none"
    /\ last' = Event("tick", "none", Broadcast, Broadcast, "none")
    /\ UNCHANGED <<pc, currentState, hookVars, dialVars, collectVars, netVars>>

(***************************************************************************)
(* HookSwitch.cpp: handleHookSwitch, first call of loop()                  *)
(***************************************************************************)
\* the debounce test: the timer restarts when the reading differs from the
\* previous one, and a reading is accepted once it is older than the window
hookDebounceTime(reading) ==
  IF reading # lastHookState THEN now ELSE lastDebounceTime

\* hookAccepted without the debounce window
hookAccepted_NoWindow(reading) == reading # currentHookState

hookAccepted(reading) ==
  /\ Sub32(now, hookDebounceTime(reading)) > debounceDelay
  /\ reading # currentHookState

\* hookNextState with changeState(IDLE) moved inside the hang-up test
hookNextState_IdleOnlyFromCall(reading) ==
  IF reading = "HIGH"
    THEN IF currentState = "IDLE" THEN changeState("OFF_HOOK")
         ELSE IF currentState = "RINGING" THEN changeState("IN_CALL")
         ELSE currentState
    ELSE IF currentState = "IN_CALL" \/ currentState = "CALLING"
           THEN changeState("IDLE")
           ELSE currentState

\* the phone state after an accepted edge
hookNextState(reading) ==
  IF reading = "HIGH"
    THEN IF currentState = "IDLE" THEN changeState("OFF_HOOK")
         ELSE IF currentState = "RINGING" THEN changeState("IN_CALL")
         ELSE currentState
    ELSE changeState("IDLE")

\* hookSend without the CallAccept of the answered call
hookSend_NoAccept(reading) ==
  IF reading = "HIGH"
    THEN [out |-> <<>>, peer |-> currentCallPeer]
    ELSE IF currentState = "IN_CALL" \/ currentState = "CALLING"
           THEN sendCallEnd(currentCallPeer)
           ELSE [out |-> <<>>, peer |-> currentCallPeer]

\* the message sent and the call peer after an accepted edge
hookSend(reading) ==
  IF reading = "HIGH"
    THEN IF currentState # "IDLE" /\ currentState = "RINGING"
           THEN sendCallAccept(currentCallPeer)
           ELSE [out |-> <<>>, peer |-> currentCallPeer]
    ELSE IF currentState = "IN_CALL" \/ currentState = "CALLING"
           THEN sendCallEnd(currentCallPeer)
           ELSE [out |-> <<>>, peer |-> currentCallPeer]

handleHookSwitch(reading) ==
  /\ pc = "hook"
  /\ pc' = "rest"
  /\ lastDebounceTime' = hookDebounceTime(reading)
  /\ lastHookState' = reading
  /\ toneRequest' = "none"
  /\ last' = Event("hook", "none", Broadcast, Broadcast,
                   IF hookAccepted(reading) THEN reading ELSE "none")
  /\ IF hookAccepted(reading)
       THEN /\ currentHookState' = reading
            /\ currentState' = hookNextState(reading)
            /\ sent' = hookSend(reading).out
            /\ currentCallPeer' = hookSend(reading).peer
            /\ IF reading = "HIGH" /\ currentState = "IDLE"
                 THEN \* startDialing()
                      /\ collectedNumber' = <<>>
                      /\ isCollectingNumber' = TRUE
                      /\ lastDigitCollectedTime' = now
                 ELSE UNCHANGED collectVars
       ELSE /\ sent' = <<>>
            /\ UNCHANGED <<currentHookState, currentState, currentCallPeer,
                           collectVars>>
  /\ UNCHANGED <<now, dialVars, peers, lastDiscoveryTime>>

HookStep == \E reading \in Level : handleHookSwitch(reading)

(***************************************************************************)
(* RotaryDial.cpp: the interrupt handlers of the decoder                   *)
(***************************************************************************)
\* pulseDigit without the special case of ten pulses
pulseDigit_TenIsTen(count) == count

\* pulse count to digit (10 pulses = 0)
pulseDigit(count) == IF count = 10 THEN 0 ELSE count

pulseCounts(level) ==
  /\ ~(Sub32(now, lastPulseDebounce) < PULSE_DEBOUNCE_MS)
  /\ level # lastPulseState
  /\ isDialing /\ level = "HIGH"

onPulseInterrupt(level) ==
  /\ pulseCounts(level) => pulseCount < MaxCount
  /\ IF Sub32(now, lastPulseDebounce) < PULSE_DEBOUNCE_MS
       THEN UNCHANGED dialVars
       ELSE IF level # lastPulseState
         THEN /\ lastPulseDebounce' = now
              /\ IF isDialing /\ level = "HIGH"
                   THEN /\ pulseCount' = pulseCount + 1
                        /\ dialingTimeout' = now
                   ELSE UNCHANGED <<pulseCount, dialingTimeout>>
              /\ lastPulseState' = level
              /\ UNCHANGED <<isDialing, digitReady, lastDialedDigit,
                             lastDialState, lastDialDebounce>>
         ELSE UNCHANGED dialVars
  /\ sent' = <<>>
  /\ toneRequest' = "none"
  /\ last' = Event("pulse", "none", Broadcast, Broadcast, level)
  /\ UNCHANGED <<now, pc, currentState, hookVars, collectVars, netVars>>

onDialInterrupt(level) ==
  /\ IF Sub32(now, lastDialDebounce) < DIAL_DEBOUNCE_MS
       THEN UNCHANGED dialVars
       ELSE IF level # lastDialState
         THEN /\ lastDialDebounce' = now
              /\ lastDialState' = level
              /\ IF ~isDialing /\ level = "LOW"
                   THEN /\ isDialing' = TRUE
                        /\ pulseCount' = 0
                        /\ digitReady' = FALSE
                        /\ dialingTimeout' = now
                        /\ UNCHANGED lastDialedDigit
                   ELSE IF isDialing /\ level = "HIGH"
                     THEN /\ isDialing' = FALSE
                          /\ IF pulseCount > 0
                               THEN /\ digitReady' = TRUE
                                    /\ lastDialedDigit' = pulseDigit(pulseCount)
                               ELSE UNCHANGED <<digitReady, lastDialedDigit>>
                          /\ UNCHANGED <<pulseCount, dialingTimeout>>
                   ELSE UNCHANGED <<isDialing, pulseCount, digitReady,
                                    dialingTimeout, lastDialedDigit>>
              /\ UNCHANGED <<lastPulseState, lastPulseDebounce>>
         ELSE UNCHANGED dialVars
  /\ sent' = <<>>
  /\ toneRequest' = "none"
  /\ last' = Event("dial", "none", Broadcast, Broadcast, level)
  /\ UNCHANGED <<now, pc, currentState, hookVars, collectVars, netVars>>

PulseStep == \E level \in Level : onPulseInterrupt(level)
DialStep == \E level \in Level : onDialInterrupt(level)

\* A whole rotation of count pulses seen from the collector: the decoder
\* publishes the digit (in onDialInterrupt when the dial returns to rest, in
\* handleRotaryDial on the safety timeout) and is at rest again.
digitDialed(count) ==
  /\ ~isDialing
  /\ digitReady' = TRUE
  /\ lastDialedDigit' = pulseDigit(count)
  /\ sent' = <<>>
  /\ toneRequest' = "none"
  /\ last' = Event("digit", "none", Broadcast, Broadcast, "none")
  /\ UNCHANGED <<now, pc, currentState, hookVars, collectVars, netVars,
                 pulseCount, isDialing, dialingTimeout,
                 lastDialState, lastPulseState, lastPulseDebounce,
                 lastDialDebounce>>

DigitStep == \E count \in 1..MaxPulses : digitDialed(count)

(***************************************************************************)
(* RotaryDial.cpp: handleRotaryDial, second call of loop()                 *)
(***************************************************************************)
\* safetyTimeout never expiring
safetyTimeout_Never == FALSE

safetyTimeout ==
  isDialing /\ Sub32(now, dialingTimeout) > SAFETY_TIMEOUT_MS * 2

\* the fields of the decoder that handleRotaryDial leaves behind
handleRotaryDial ==
  IF safetyTimeout
    THEN IF pulseCount > 0
           THEN [isDialing |-> FALSE, digitReady |-> TRUE,
                 lastDialedDigit |-> pulseDigit(pulseCount)]
           ELSE [isDialing |-> FALSE, digitReady |-> digitReady,
                 lastDialedDigit |-> lastDialedDigit]
    ELSE [isDialing |-> isDialing, digitReady |-> digitReady,
          lastDialedDigit |-> lastDialedDigit]

(***************************************************************************)
(* Network.cpp: updateNetwork, fourth call of loop()                       *)
(***************************************************************************)
broadcastDiscovery ==
  [mac |-> "FF:FF:FF:FF:FF:FF",
   msg |-> Message("MSG_DISCOVERY", getPhoneNumber, Broadcast)]

\* updateNetwork broadcasting only while no call is set up
updateNetwork_OnlyIdle ==
  IF currentState = "IDLE"
     /\ Sub32(now, lastDiscoveryTime) > DISCOVERY_INTERVAL
    THEN [out |-> <<broadcastDiscovery>>, time |-> now]
    ELSE [out |-> <<>>, time |-> lastDiscoveryTime]

\* the broadcast sent and lastDiscoveryTime after updateNetwork
updateNetwork ==
  IF Sub32(now, lastDiscoveryTime) > DISCOVERY_INTERVAL
    THEN [out |-> <<broadcastDiscovery>>, time |-> now]
    ELSE [out |-> <<>>, time |-> lastDiscoveryTime]

(***************************************************************************)
(* RotaryDial.cpp: the number collector.  d holds the decoder's fields     *)
(* digitReady and lastDialedDigit as the collector finds them.             *)
(***************************************************************************)
RECURSIVE StringOf(_)
\* String(int): the decimal digits of a non-negative number
StringOf(n) == IF n < 10 THEN <<n>> ELSE Append(StringOf(n \div 10), n % 10)

RECURSIVE toInt(_)
\* String::toInt of a string of decimal digits
toInt(str) ==
  IF str = <<>> THEN 0
  ELSE 10 * toInt(SubSeq(str, 1, Len(str) - 1)) + str[Len(str)]

getDialedDigit(d) == IF d.digitReady THEN d.lastDialedDigit ELSE -1

hasStartedDialing == isCollectingNumber /\ Len(collectedNumber) > 0

getDialedNumber(str) == IF Len(str) = 0 THEN -1 ELSE toInt(str)

\* isDialingComplete with the timeout applied to an empty number as well
isDialingComplete_EmptyTimesOut(d) ==
  LET took == isCollectingNumber /\ getDialedDigit(d) >= 0
      number == IF took THEN collectedNumber \o StringOf(getDialedDigit(d))
                        ELSE collectedNumber
      time == IF took THEN now ELSE lastDigitCollectedTime
  IN [took |-> took, number |-> number, time |-> time,
      complete |->
        /\ isCollectingNumber
        /\ \/ took /\ Len(number) >= MAX_DIGITS
           \/ Sub32(now, time) >= DIAL_COMPLETE_TIMEOUT]

\* isDialingComplete with the digit limit tested by > instead of >=
isDialingComplete_LimitExceeded(d) ==
  LET took == isCollectingNumber /\ getDialedDigit(d) >= 0
      number == IF took THEN collectedNumber \o StringOf(getDialedDigit(d))
                        ELSE collectedNumber
      time == IF took THEN now ELSE lastDigitCollectedTime
  IN [took |-> took, number |-> number, time |-> time,
      complete |->
        /\ isCollectingNumber
        /\ \/ took /\ Len(number) > MAX_DIGITS
           \/ Len(number) > 0 /\ Sub32(now, time) >= DIAL_COMPLETE_TIMEOUT]

\* isDialingComplete takes a ready digit into the collected number before it
\* decides: took tells whether it did, number and time are the collector's
\* fields afterwards
isDialingComplete(d) ==
  LET took == isCollectingNumber /\ getDialedDigit(d) >= 0
      number == IF took THEN collectedNumber \o StringOf(getDialedDigit(d))
                        ELSE collectedNumber
      time == IF took THEN now ELSE lastDigitCollectedTime
  IN [took |-> took, number |-> number, time |-> time,
      complete |->
        /\ isCollectingNumber
        /\ \/ took /\ Len(number) >= MAX_DIGITS
           \/ Len(number) > 0 /\ Sub32(now, time) >= DIAL_COMPLETE_TIMEOUT]

(***************************************************************************)
(* main.cpp: the dialing logic and the state switch that end loop()        *)
(***************************************************************************)
logicDialing == currentState = "OFF_HOOK" \/ currentState = "DIALING"

logicDone(d) == logicDialing /\ isDialingComplete(d).complete

logicRequest(d, sendOk) ==
  sendCallRequest(getDialedNumber(isDialingComplete(d).number), sendOk)

\* the phone state after the dialing logic
logicNextState(d, sendOk) ==
  IF ~logicDialing THEN currentState
  ELSE IF logicDone(d)
    THEN IF logicRequest(d, sendOk).ok THEN changeState("CALLING")
                                       ELSE changeState("CALL_FAILED")
  ELSE IF currentState = "OFF_HOOK" /\ hasStartedDialing
    THEN changeState("DIALING")
  ELSE currentState

logicNextPeer(d, sendOk) ==
  IF logicDone(d) THEN logicRequest(d, sendOk).peer ELSE currentCallPeer

\* the call to the tone player made by the state switch
switchTone(state) ==
  CASE state = "IDLE" -> "stopTone"
    [] state = "OFF_HOOK" -> "playDialTone"
    [] state = "DIALING" -> "stopTone"
    [] state = "CALLING" -> "playRingbackTone"
    [] state = "RINGING" -> "playRingTone"
    [] state = "CALL_FAILED" -> "playErrorTone"
    [] state = "IN_CALL" -> "stopTone"
    [] OTHER -> "none"

\* switchResets without the reset of the IDLE case
switchResets_Never(state) == FALSE

\* the state switch calls resetDialedNumber
switchResets(state) == state = "IDLE"

sendAudioData(peer) ==
  LET i == FindPeer(peer)
  IN IF peer = NoPeer \/ i = 0 THEN <<>>
     ELSE <<Packet("MSG_AUDIO_DATA", i, peer)>>

\* loop() after handleRotaryDial left the decoder's fields d: updateNetwork,
\* the dialing logic and the state switch
loopAfterRotary(d, sendOk, micReady) ==
  LET state == logicNextState(d, sendOk)
      peer == logicNextPeer(d, sendOk)
  IN
  /\ pc' = "hook"
  /\ isDialing' = d.isDialing
  /\ lastDiscoveryTime' = updateNetwork.time
  /\ currentState' = state
  /\ currentCallPeer' = peer
  /\ toneRequest' = switchTone(state)
  /\ IF logicDialing /\ isDialingComplete(d).took
       THEN \* clearDialedDigit()
            /\ digitReady' = FALSE
            /\ lastDialedDigit' = -1
       ELSE /\ digitReady' = d.digitReady
            /\ lastDialedDigit' = d.lastDialedDigit
  /\ IF logicDone(d) \/ switchResets(state)
       THEN \* resetDialedNumber()
            /\ collectedNumber' = <<>>
            /\ isCollectingNumber' = FALSE
            /\ lastDigitCollectedTime' = 0
       ELSE IF logicDialing
         THEN /\ collectedNumber' = isDialingComplete(d).number
              /\ lastDigitCollectedTime' = isDialingComplete(d).time
              /\ UNCHANGED isCollectingNumber
         ELSE UNCHANGED collectVars
  /\ sent' = updateNetwork.out
             \o (IF logicDone(d) THEN logicRequest(d, sendOk).out ELSE <<>>)
             \o (IF state = "IN_CALL" /\ micReady
                   THEN sendAudioData(peer) ELSE <<>>)
  /\ last' = Event("loop", "none", Broadcast, Broadcast, "none")
  /\ UNCHANGED <<now, hookVars, pulseCount, dialingTimeout, lastDialState,
                 lastPulseState, lastPulseDebounce, lastDialDebounce, peers>>

\* loop() from handleRotaryDial to its end
loopRest(sendOk, micReady) ==
  /\ pc = "rest"
  /\ loopAfterRotary(handleRotaryDial, sendOk, micReady)

\* the outcome of esp_now_send matters only when a call request is sent, the
\* microphone only during a call
RestStep ==
  \E sendOk \in BOOLEAN, micReady \in BOOLEAN :
    /\ sendOk \/ logicDone(handleRotaryDial)
    /\ micReady \/ logicNextState(handleRotaryDial, sendOk) = "IN_CALL"
    /\ loopRest(sendOk, micReady)

(***************************************************************************)
(* Network.cpp: handleIncomingMessage, the receive callback                *)
(***************************************************************************)
msgForUs(msg) == msg.toNumber = getPhoneNumber

msgBusy == currentState = "IN_CALL" \/ currentState = "RINGING"

\* msgNextState without the address test of the CallEnd case
msgNextState_EndNotFiltered(msg) ==
  CASE msg.type = "MSG_CALL_REQUEST" ->
         IF ~msgForUs(msg) THEN currentState
         ELSE IF msgBusy THEN currentState
         ELSE changeState("RINGING")
    [] msg.type = "MSG_CALL_ACCEPT" ->
         IF ~msgForUs(msg) THEN currentState ELSE changeState("IN_CALL")
    [] msg.type = "MSG_CALL_BUSY" ->
         IF ~msgForUs(msg) THEN currentState ELSE changeState("CALL_BUSY")
    [] msg.type = "MSG_CALL_REJECT" ->
         IF ~msgForUs(msg) THEN currentState ELSE changeState("IDLE")
    [] msg.type = "MSG_CALL_END" -> changeState("IDLE")
    [] OTHER -> currentState

\* msgNextState with a CallEnd honoured only during a call
msgNextState_EndOnlyInCall(msg) ==
  CASE msg.type = "MSG_CALL_REQUEST" ->
         IF ~msgForUs(msg) THEN currentState
         ELSE IF msgBusy THEN currentState
         ELSE changeState("RINGING")
    [] msg.type = "MSG_CALL_ACCEPT" ->
         IF ~msgForUs(msg) THEN currentState ELSE changeState("IN_CALL")
    [] msg.type = "MSG_CALL_BUSY" ->
         IF ~msgForUs(msg) THEN currentState ELSE changeState("CALL_BUSY")
    [] msg.type = "MSG_CALL_REJECT" ->
         IF ~msgForUs(msg) THEN currentState ELSE changeState("IDLE")
    [] msg.type = "MSG_CALL_END" ->
         IF ~msgForUs(msg) THEN currentState
         ELSE IF currentState \in {"CALLING", "RINGING", "IN_CALL"}
           THEN changeState("IDLE")
         ELSE currentState
    [] OTHER -> currentState

\* msgNextState with the targets of CallBusy and CallReject exchanged
msgNextState_BusyRejectSwapped(msg) ==
  CASE msg.type = "MSG_CALL_REQUEST" ->
         IF ~msgForUs(msg) THEN currentState
         ELSE IF msgBusy THEN currentState
         ELSE changeState("RINGING")
    [] msg.type = "MSG_CALL_ACCEPT" ->
         IF ~msgForUs(msg) THEN currentState ELSE changeState("IN_CALL")
    [] msg.type = "MSG_CALL_BUSY" ->
         IF ~msgForUs(msg) THEN currentState ELSE changeState("IDLE")
    [] msg.type = "MSG_CALL_REJECT" ->
         IF ~msgForUs(msg) THEN currentState ELSE changeState("CALL_BUSY")
    [] msg.type = "MSG_CALL_END" ->
         IF ~msgForUs(msg) THEN currentState ELSE changeState("IDLE")
    [] OTHER -> currentState

\* the phone state after a message of the right size
msgNextState(msg) ==
  CASE msg.type = "MSG_CALL_REQUEST" ->
         IF ~msgForUs(msg) THEN currentState
         ELSE IF msgBusy THEN currentState
         ELSE changeState("RINGING")
    [] msg.type = "MSG_CALL_ACCEPT" ->
         IF ~msgForUs(msg) THEN currentState ELSE changeState("IN_CALL")
    [] msg.type = "MSG_CALL_BUSY" ->
         IF ~msgForUs(msg) THEN currentState ELSE changeState("CALL_BUSY")
    [] msg.type = "MSG_CALL_REJECT" ->
         IF ~msgForUs(msg) THEN currentState ELSE changeState("IDLE")
    [] msg.type = "MSG_CALL_END" ->
         IF ~msgForUs(msg) THEN currentState ELSE changeState("IDLE")
    [] OTHER -> currentState

\* msgNextPeer without the return after sendCallBusy
msgNextPeer_NoReturnWhenBusy(msg) ==
  CASE msg.type = "MSG_CALL_REQUEST" ->
         IF ~msgForUs(msg) THEN currentCallPeer ELSE msg.fromNumber
    [] msg.type = "MSG_CALL_BUSY" ->
         IF ~msgForUs(msg) THEN currentCallPeer ELSE NoPeer
    [] msg.type = "MSG_CALL_END" ->
         IF ~msgForUs(msg) THEN currentCallPeer ELSE NoPeer
    [] OTHER -> currentCallPeer

\* currentCallPeer after a message of the right size
msgNextPeer(msg) ==
  CASE msg.type = "MSG_CALL_REQUEST" ->
         IF ~msgForUs(msg) THEN currentCallPeer
         ELSE IF msgBusy THEN sendCallBusy(msg.fromNumber).peer
         ELSE msg.fromNumber
    [] msg.type = "MSG_CALL_BUSY" ->
         IF ~msgForUs(msg) THEN currentCallPeer ELSE NoPeer
    [] msg.type = "MSG_CALL_END" ->
         IF ~msgForUs(msg) THEN currentCallPeer ELSE NoPeer
    [] OTHER -> currentCallPeer

\* msgSend with a CallEnd answered by a CallEnd
msgSend_EndEchoed(msg) ==
  IF msg.type = "MSG_CALL_REQUEST" /\ msgForUs(msg) /\ msgBusy
    THEN sendCallBusy(msg.fromNumber).out
  ELSE IF msg.type = "MSG_CALL_END" /\ msgForUs(msg)
    THEN <<[mac |-> 1,
            msg |-> Message("MSG_CALL_END", getPhoneNumber, msg.fromNumber)]>>
  ELSE <<>>

\* the messages sent in answer to a message of the right size
msgSend(msg) ==
  IF msg.type = "MSG_CALL_REQUEST" /\ msgForUs(msg) /\ msgBusy
    THEN sendCallBusy(msg.fromNumber).out
    ELSE <<>>

\* the peer directory after a message of the right size
msgNextPeers(mac, msg, addOk) ==
  IF msg.type = "MSG_DISCOVERY"
    THEN addPeerByMac(mac, msg.fromNumber, addOk)
    ELSE peers

\* handleIncomingMessage without the return after the test of the size
handleIncomingMessage_NoSizeTest(mac, msg, len, addOk) ==
  /\ toneRequest' = "none"
  /\ last' = IF len # MessageSize
               THEN Event("badmsg", "none", Broadcast, Broadcast, "none")
               ELSE [Event("msg", msg.type, msg.fromNumber, msg.toNumber,
                           "none") EXCEPT !.mac = mac]
  /\ currentState' = msgNextState(msg)
  /\ currentCallPeer' = msgNextPeer(msg)
  /\ peers' = msgNextPeers(mac, msg, addOk)
  /\ sent' = msgSend(msg)
  /\ UNCHANGED <<now, pc, hookVars, dialVars, collectVars, lastDiscoveryTime>>

handleIncomingMessage(mac, msg, len, addOk) ==
  /\ toneRequest' = "none"
  /\ IF len # MessageSize
       THEN /\ last' = Event("badmsg", "none", Broadcast, Broadcast, "none")
            /\ sent' = <<>>
            /\ UNCHANGED <<currentState, currentCallPeer, peers>>
       ELSE /\ last' = [Event("msg", msg.type, msg.fromNumber, msg.toNumber,
                              "none") EXCEPT !.mac = mac]
            /\ currentState' = msgNextState(msg)
            /\ currentCallPeer' = msgNextPeer(msg)
            /\ peers' = msgNextPeers(mac, msg, addOk)
            /\ sent' = msgSend(msg)
  /\ UNCHANGED <<now, pc, hookVars, dialVars, collectVars, lastDiscoveryTime>>

Lengths == {MessageSize, MessageSize - 1}

\* the messages the other phones send: a Discovery goes to the broadcast
\* number, every other message to this phone or to the last of the others
Messages ==
  [type : {"MSG_DISCOVERY"}, fromNumber : Numbers, toNumber : {Broadcast}]
  \cup [type : MessageType \ {"MSG_DISCOVERY"}, fromNumber : Numbers,
        toNumber : {getPhoneNumber, MaxNumber}]

\* the sender's address and the result of esp_now_add_peer matter only for
\* a Discovery, and the content of a message only when its size is right
MessageStep ==
  \E mac \in Macs, msg \in Messages, len \in Lengths, addOk \in BOOLEAN :
    /\ (addOk /\ mac = 1) \/ (msg.type = "MSG_DISCOVERY" /\ len = MessageSize)
    /\ len = MessageSize \/ (msg.type = "MSG_AUDIO_DATA" /\ msgForUs(msg))
    /\ handleIncomingMessage(mac, msg, len, addOk)

Next ==
  \/ Tick /\ UNCHANGED <<sampleVars, configVars, worldVars>>
  \/ HookStep /\ UNCHANGED <<sampleVars, configVars, worldVars>>
  \/ RestStep /\ UNCHANGED <<sampleVars, configVars, worldVars>>
  \/ DigitStep /\ UNCHANGED <<sampleVars, configVars, worldVars>>
  \/ MessageStep /\ UNCHANGED <<sampleVars, configVars, worldVars>>

Spec == Init /\ [][Next]_vars

\* a step of loop(): loop() runs again and again
LoopStep == (HookStep \/ RestStep) /\ UNCHANGED <<sampleVars, configVars, worldVars>>

FairSpec == Spec /\ WF_vars(LoopStep)

(***************************************************************************)
(* The phone over several discovery intervals: the steps of Spec with a    *)
(* clock that runs past the interval more than once.                       *)
(***************************************************************************)
\* the time between two observations of the clock: just over half the
\* interval
DiscoveryTick == 5001
\* the clock stops advancing after MaxDiscoveryTicks observations
MaxDiscoveryTicks == 4

LongTick ==
  /\ now + DiscoveryTick <= MaxDiscoveryTicks * DiscoveryTick
  /\ now' = now + DiscoveryTick
  /\ sent' = <<>>
  /\ toneRequest' = "none"
  /\ last' = Event("tick", "none", Broadcast, Broadcast, "none")
  /\ UNCHANGED <<pc, currentState, hookVars, dialVars, collectVars, netVars>>

\* a well-formed message for this phone, or a Discovery, from the first
\* address
AddressedStep ==
  \E msg \in Messages :
    /\ msgForUs(msg) \/ msg.type = "MSG_DISCOVERY"
    /\ handleIncomingMessage(1, msg, MessageSize, TRUE)

DiscoveryNext ==
  \/ LongTick /\ UNCHANGED <<sampleVars, configVars, worldVars>>
  \/ HookStep /\ UNCHANGED <<sampleVars, configVars, worldVars>>
  \/ RestStep /\ UNCHANGED <<sampleVars, configVars, worldVars>>
  \/ DigitStep /\ UNCHANGED <<sampleVars, configVars, worldVars>>
  \/ AddressedStep /\ UNCHANGED <<sampleVars, configVars, worldVars>>

SpecDiscovery == Init /\ [][DiscoveryNext]_vars

(***************************************************************************)
(* The peer directory on its own: only the receive callback writes it, so  *)
(* this specification runs the callback alone, with senders at more than   *)
(* one transport address.                                                  *)
(***************************************************************************)
\* the senders' addresses are 1..MaxDirMac
MaxDirMac == 2

DirMacs == 1..MaxDirMac

DirectoryStep ==
  \E mac \in DirMacs, msg \in Messages, addOk \in BOOLEAN :
    /\ addOk \/ msg.type = "MSG_DISCOVERY"
    /\ handleIncomingMessage(mac, msg, MessageSize, addOk)
    /\ UNCHANGED <<sampleVars, configVars, worldVars>>

SpecDirectory == Init /\ [][DirectoryStep]_vars

(***************************************************************************)
(* The dial decoder under loop(): the two interrupt handlers, the hook     *)
(* switch and the rest of loop(), with a clock that runs past the safety   *)
(* timeout of a rotation that never ends.                                  *)
(***************************************************************************)
\* the clock stops advancing after MaxSafetyTicks observations
MaxSafetyTicks == 5

SafetyTick ==
  /\ now + BigTick <= MaxSafetyTicks * BigTick
  /\ now' = now + BigTick
  /\ sent' = <<>>
  /\ toneRequest' = "none"
  /\ last' = Event("tick", "none", Broadcast, Broadcast, "none")
  /\ UNCHANGED <<pc, currentState, hookVars, dialVars, collectVars, netVars>>

SafetyNext ==
  \/ SafetyTick /\ UNCHANGED <<sampleVars, configVars, worldVars>>
  \/ PulseStep /\ UNCHANGED <<sampleVars, configVars, worldVars>>
  \/ DialStep /\ UNCHANGED <<sampleVars, configVars, worldVars>>
  \/ HookStep /\ UNCHANGED <<sampleVars, configVars, worldVars>>
  \/ RestStep /\ UNCHANGED <<sampleVars, configVars, worldVars>>

SpecSafety == Init /\ [][SafetyNext]_vars

(***************************************************************************)
(* The handoff of digits from the interrupt handlers to the collector: the *)
(* handset is lifted and held, the dial is turned, loop() runs, and the    *)
(* clock advances in steps of the dial contact's debounce window.          *)
(***************************************************************************)
\* the clock stops advancing after MaxHandoffTicks observations
MaxHandoffTicks == 6

\* loop() has just ended the pass in which the off-hook edge was accepted, two
\* debounce windows after the handset was lifted
InitLifted ==
  /\ rotaryNow = 0
  /\ now = 2 * debounceDelay
  /\ pc = "hook"
  /\ currentState = "OFF_HOOK"
  /\ currentHookState = "HIGH" /\ lastHookState = "HIGH" /\ lastDebounceTime = 0
  /\ pulseCount = 0 /\ isDialing = FALSE /\ digitReady = FALSE
  /\ dialingTimeout = 0 /\ lastDialedDigit = -1
  /\ lastDialState = "HIGH" /\ lastPulseState = "HIGH"
  /\ lastPulseDebounce = 0 /\ lastDialDebounce = 0
  /\ collectedNumber = <<>> /\ lastDigitCollectedTime = 2 * debounceDelay
  /\ isCollectingNumber = TRUE
  /\ peers = <<>> /\ currentCallPeer = NoPeer /\ lastDiscoveryTime = 0
  /\ toneRequest = "playDialTone"
  /\ sent = <<>>
  /\ last = [op |-> "loop", type |-> "none", fromNumber |-> Broadcast,
             toNumber |-> Broadcast, mac |-> 0, edge |-> "none",
             pre |-> "OFF_HOOK", prePeer |-> NoPeer]
  /\ currentConfig = [phoneNumber |-> 0] /\ ownAddress = 0
  /\ hookPin = "HIGH" /\ pinSince = 0 /\ pinEdges = 1 /\ pinPolled = TRUE
  /\ dialPlan = <<>>
  /\ parked = <<>>
  /\ net = {}

HandoffTick ==
  /\ now + DialTick <= 2 * debounceDelay + MaxHandoffTicks * DialTick
  /\ now' = now + DialTick
  /\ sent' = <<>>
  /\ toneRequest' = "none"
  /\ last' = Event("tick", "none", Broadcast, Broadcast, "none")
  /\ UNCHANGED <<pc, currentState, hookVars, dialVars, collectVars, netVars>>

HandoffNext ==
  \/ HandoffTick /\ UNCHANGED <<sampleVars, configVars, worldVars>>
  \/ PulseStep /\ UNCHANGED <<sampleVars, configVars, worldVars>>
  \/ DialStep /\ UNCHANGED <<sampleVars, configVars, worldVars>>
  \/ handleHookSwitch(hookPin) /\ UNCHANGED <<sampleVars, configVars, worldVars>>
  \/ RestStep /\ UNCHANGED <<sampleVars, configVars, worldVars>>

SpecHandoff == InitLifted /\ [][HandoffNext]_vars

(***************************************************************************)
(* The phone among several others: messages of every type arrive from the  *)
(* phones with the numbers 1..MaxSender, each sent from its own address.   *)
(***************************************************************************)
\* the other phones have the numbers 1..MaxSender
MaxSender == 2

\* a well-formed message for this phone, or a Discovery, from any of them
SenderStep ==
  \E from \in 1..MaxSender, type \in MessageType :
    handleIncomingMessage(from,
      Message(type, from,
              IF type = "MSG_DISCOVERY" THEN Broadcast ELSE getPhoneNumber),
      MessageSize, TRUE)

SenderNext ==
  \/ Tick /\ UNCHANGED <<sampleVars, configVars, worldVars>>
  \/ HookStep /\ UNCHANGED <<sampleVars, configVars, worldVars>>
  \/ RestStep /\ UNCHANGED <<sampleVars, configVars, worldVars>>
  \/ DigitStep /\ UNCHANGED <<sampleVars, configVars, worldVars>>
  \/ SenderStep /\ UNCHANGED <<sampleVars, configVars, worldVars>>

SpecSenders == Init /\ [][SenderNext]_vars

(***************************************************************************)
(* handleRotaryDial reads millis() into its local now when it is entered   *)
(* and compares it with dialingTimeout at its end; the interrupt handlers  *)
(* can run, and store a later millis() in dialingTimeout, in between.      *)
(***************************************************************************)
\* the clock advances by one millisecond, MaxSampleTicks times
MaxSampleTicks == 3

SampleTick ==
  /\ now + 1 <= 2 * debounceDelay + MaxSampleTicks
  /\ now' = now + 1
  /\ sent' = <<>>
  /\ toneRequest' = "none"
  /\ last' = Event("tick", "none", Broadcast, Broadcast, "none")
  /\ UNCHANGED <<pc, currentState, hookVars, dialVars, collectVars, netVars>>

\* unsigned long now = millis(), the first statement of handleRotaryDial
rotarySample ==
  /\ pc = "rest"
  /\ pc' = "rotary"
  /\ rotaryNow' = now
  /\ sent' = <<>>
  /\ toneRequest' = "none"
  /\ last' = Event("sample", "none", Broadcast, Broadcast, "none")
  /\ UNCHANGED <<now, currentState, hookVars, dialVars, collectVars, netVars>>

\* the safety test on the local now
safetyTimeoutSampled ==
  isDialing /\ Sub32(rotaryNow, dialingTimeout) > SAFETY_TIMEOUT_MS * 2

\* the fields of the decoder that handleRotaryDial leaves behind
handleRotaryDialSampled ==
  IF safetyTimeoutSampled
    THEN IF pulseCount > 0
           THEN [isDialing |-> FALSE, digitReady |-> TRUE,
                 lastDialedDigit |-> pulseDigit(pulseCount)]
           ELSE [isDialing |-> FALSE, digitReady |-> digitReady,
                 lastDialedDigit |-> lastDialedDigit]
    ELSE [isDialing |-> isDialing, digitReady |-> digitReady,
          lastDialedDigit |-> lastDialedDigit]

\* loop() from the safety test of handleRotaryDial to its end
rotaryRest ==
  \E sendOk \in BOOLEAN, micReady \in BOOLEAN :
    /\ sendOk \/ logicDone(handleRotaryDialSampled)
    /\ micReady \/ logicNextState(handleRotaryDialSampled, sendOk) = "IN_CALL"
    /\ pc = "rotary"
    /\ loopAfterRotary(handleRotaryDialSampled, sendOk, micReady)

SampleNext ==
  \/ SampleTick /\ UNCHANGED <<sampleVars, configVars, worldVars>>
  \/ PulseStep /\ UNCHANGED <<sampleVars, configVars, worldVars>>
  \/ DialStep /\ UNCHANGED <<sampleVars, configVars, worldVars>>
  \/ handleHookSwitch(hookPin) /\ UNCHANGED <<sampleVars, configVars, worldVars>>
  \/ rotarySample /\ UNCHANGED <<configVars, worldVars>>
  \/ rotaryRest /\ UNCHANGED <<sampleVars, configVars, worldVars>>

SpecSample == InitLifted /\ [][SampleNext]_vars

(***************************************************************************)
(* Rotations of every pulse count, with the handset lifted and held:       *)
(* pulseCount++ in onPulseInterrupt has no upper limit, so a rotation can  *)
(* end with more than ten pulses counted.                                  *)
(***************************************************************************)
\* the most pulses counted in one rotation
MaxRotation == 11

CountStep == \E count \in 1..MaxRotation : digitDialed(count)

CountNext ==
  \/ HandoffTick /\ UNCHANGED <<sampleVars, configVars, worldVars>>
  \/ CountStep /\ UNCHANGED <<sampleVars, configVars, worldVars>>
  \/ handleHookSwitch(hookPin) /\ UNCHANGED <<sampleVars, configVars, worldVars>>
  \/ RestStep /\ UNCHANGED <<sampleVars, configVars, worldVars>>

SpecCounts == InitLifted /\ [][CountNext]_vars

(***************************************************************************)
(* loop() and the receive callback as two threads of control: the callback *)
(* is called by the radio driver, not by loop(), and can run between any   *)
(* two statements of loop().  The two places where loop() tests the state  *)
(* and then calls a sender before changeState are split at the sender.     *)
(***************************************************************************)
\* handleHookSwitch takes the branch that answers a ringing call
answering(reading) ==
  hookAccepted(reading) /\ reading = "HIGH" /\ currentState = "RINGING"

\* handleHookSwitch up to the return of sendCallAccept
answerBegin(reading) ==
  /\ pc = "hook"
  /\ answering(reading)
  /\ pc' = "answer"
  /\ lastDebounceTime' = hookDebounceTime(reading)
  /\ lastHookState' = reading
  /\ currentHookState' = reading
  /\ sent' = sendCallAccept(currentCallPeer).out
  /\ currentCallPeer' = sendCallAccept(currentCallPeer).peer
  /\ toneRequest' = "none"
  /\ last' = Event("hook", "none", Broadcast, Broadcast, reading)
  /\ UNCHANGED <<now, currentState, dialVars, collectVars, peers,
                 lastDiscoveryTime>>

\* changeState(IN_CALL), which ends the answering branch
answerEnd ==
  /\ pc = "answer"
  /\ pc' = "rest"
  /\ currentState' = changeState("IN_CALL")
  /\ sent' = <<>>
  /\ toneRequest' = "none"
  /\ last' = Event("answered", "none", Broadcast, Broadcast, "none")
  /\ UNCHANGED <<now, hookVars, dialVars, collectVars, netVars>>

\* loop() from handleRotaryDial to the return of sendCallRequest, in a pass
\* where the dialing is complete
requestBegin(sendOk) ==
  LET d == handleRotaryDial
  IN
  /\ pc = "rest"
  /\ logicDone(d)
  /\ pc' = IF logicRequest(d, sendOk).ok THEN "calling" ELSE "failing"
  /\ isDialing' = d.isDialing
  /\ lastDiscoveryTime' = updateNetwork.time
  /\ currentState' = IF currentState = "OFF_HOOK" /\ hasStartedDialing
                        THEN changeState("DIALING") ELSE currentState
  /\ currentCallPeer' = logicRequest(d, sendOk).peer
  /\ toneRequest' = "none"
  /\ IF isDialingComplete(d).took
       THEN \* clearDialedDigit()
            /\ digitReady' = FALSE
            /\ lastDialedDigit' = -1
       ELSE /\ digitReady' = d.digitReady
            /\ lastDialedDigit' = d.lastDialedDigit
  /\ collectedNumber' = isDialingComplete(d).number
  /\ lastDigitCollectedTime' = isDialingComplete(d).time
  /\ sent' = updateNetwork.out \o logicRequest(d, sendOk).out
  /\ last' = Event("loop", "none", Broadcast, Broadcast, "none")
  /\ UNCHANGED <<now, hookVars, pulseCount, dialingTimeout, lastDialState,
                 lastPulseState, lastPulseDebounce, lastDialDebounce, peers,
                 isCollectingNumber>>

\* changeState(CALLING) or changeState(CALL_FAILED), resetDialedNumber and
\* the state switch, which end that pass
requestEnd(micReady) ==
  LET state == IF pc = "calling" THEN changeState("CALLING")
                                 ELSE changeState("CALL_FAILED")
  IN
  /\ pc \in {"calling", "failing"}
  /\ pc' = "hook"
  /\ currentState' = state
  /\ toneRequest' = switchTone(state)
  /\ collectedNumber' = <<>>
  /\ isCollectingNumber' = FALSE
  /\ lastDigitCollectedTime' = 0
  /\ sent' = IF state = "IN_CALL" /\ micReady
               THEN sendAudioData(currentCallPeer) ELSE <<>>
  /\ last' = Event("called", "none", Broadcast, Broadcast, "none")
  /\ UNCHANGED <<now, hookVars, dialVars, peers, currentCallPeer,
                 lastDiscoveryTime>>

PreemptNext ==
  \/ Tick /\ UNCHANGED <<sampleVars, configVars, worldVars>>
  \/ \E reading \in Level :
       /\ ~answering(reading)
       /\ handleHookSwitch(reading)
       /\ UNCHANGED <<sampleVars, configVars, worldVars>>
  \/ \E reading \in Level :
       answerBegin(reading) /\ UNCHANGED <<sampleVars, configVars, worldVars>>
  \/ answerEnd /\ UNCHANGED <<sampleVars, configVars, worldVars>>
  \/ ~logicDone(handleRotaryDial) /\ RestStep
       /\ UNCHANGED <<sampleVars, configVars, worldVars>>
  \/ \E sendOk \in BOOLEAN :
       requestBegin(sendOk) /\ UNCHANGED <<sampleVars, configVars, worldVars>>
  \/ requestEnd(FALSE) /\ UNCHANGED <<sampleVars, configVars, worldVars>>
  \/ DigitStep /\ UNCHANGED <<sampleVars, configVars, worldVars>>
  \/ MessageStep /\ UNCHANGED <<sampleVars, configVars, worldVars>>

SpecPreempt == Init /\ [][PreemptNext]_vars

(***************************************************************************)
(* The receive callback with payloads of every kind: each content with     *)
(* each length.                                                            *)
(***************************************************************************)
\* the lengths of the payloads: none, one byte short, right, one byte long
PayloadLengths == {0, MessageSize - 1, MessageSize, MessageSize + 1}

PayloadStep ==
  \E mac \in DirMacs, msg \in Messages, len \in PayloadLengths,
     addOk \in BOOLEAN :
    /\ addOk \/ msg.type = "MSG_DISCOVERY"
    /\ handleIncomingMessage(mac, msg, len, addOk)
    /\ UNCHANGED <<sampleVars, configVars, worldVars>>

SpecPayload == Init /\ [][PayloadStep]_vars

(***************************************************************************)
(* The peer directory near its capacity: the receive callback alone, from  *)
(* the state in which all records but one are stored.                      *)
(***************************************************************************)
\* the records stored before: phones that were heard earlier, with numbers
\* and addresses of their own
StoredBefore ==
  [i \in 1..(MAX_PEERS - 1) |->
     [number |-> MaxNumber + i, macAddress |-> MaxDirMac + i,
      registered |-> TRUE]]

InitFull ==
  /\ rotaryNow = 0
  /\ now = 0
  /\ pc = "hook"
  /\ currentState = "IDLE"
  /\ currentHookState = "LOW" /\ lastHookState = "LOW" /\ lastDebounceTime = 0
  /\ pulseCount = 0 /\ isDialing = FALSE /\ digitReady = FALSE
  /\ dialingTimeout = 0 /\ lastDialedDigit = -1
  /\ lastDialState = "HIGH" /\ lastPulseState = "HIGH"
  /\ lastPulseDebounce = 0 /\ lastDialDebounce = 0
  /\ collectedNumber = <<>> /\ lastDigitCollectedTime = 0
  /\ isCollectingNumber = FALSE
  /\ peers = StoredBefore /\ currentCallPeer = NoPeer /\ lastDiscoveryTime = 0
  /\ toneRequest = "none"
  /\ sent = <<>>
  /\ last = [op |-> "setup", type |-> "none", fromNumber |-> Broadcast,
             toNumber |-> Broadcast, mac |-> 0, edge |-> "none",
             pre |-> "IDLE", prePeer |-> NoPeer]
  /\ currentConfig = [phoneNumber |-> 0] /\ ownAddress = 0
  /\ hookPin = "LOW" /\ pinSince = 0 /\ pinEdges = 0 /\ pinPolled = TRUE
  /\ dialPlan = <<>>
  /\ parked = <<>>
  /\ net = {}

SpecFullDirectory == InitFull /\ [][DirectoryStep]_vars

(***************************************************************************)
(* The dial decoder on its own: the two interrupt handlers of              *)
(* RotaryDial.cpp and the clock they read.                                 *)
(***************************************************************************)
DecoderTick ==
  /\ now + DialTick <= MaxDialTicks * DialTick
  /\ now' = now + DialTick
  /\ sent' = <<>>
  /\ toneRequest' = "none"
  /\ last' = Event("tick", "none", Broadcast, Broadcast, "none")
  /\ UNCHANGED <<pc, currentState, hookVars, dialVars, collectVars, netVars>>

DecoderNext ==
  \/ DecoderTick /\ UNCHANGED <<sampleVars, configVars, worldVars>>
  \/ PulseStep /\ UNCHANGED <<sampleVars, configVars, worldVars>>
  \/ DialStep /\ UNCHANGED <<sampleVars, configVars, worldVars>>

SpecDecoder == Init /\ [][DecoderNext]_vars

(***************************************************************************)
(* The hook switch with its pin: the level at the pin changes, time        *)
(* passes, and loop() polls the pin.  loop() is fast: it runs once after   *)
(* every change of the level and every advance of the clock.               *)
(***************************************************************************)
OtherLevel(level) == IF level = "LOW" THEN "HIGH" ELSE "LOW"

PinTick ==
  /\ pinPolled /\ pc = "hook"
  /\ now + HookTick <= MaxHookTicks * HookTick
  /\ now' = now + HookTick
  /\ pinPolled' = FALSE
  /\ sent' = <<>>
  /\ toneRequest' = "none"
  /\ last' = Event("tick", "none", Broadcast, Broadcast, "none")
  /\ UNCHANGED <<pc, currentState, hookVars, dialVars, collectVars, netVars,
                 sampleVars, configVars, hookPin, pinSince, pinEdges, dialPlan, parked,
                 net>>

PinChange ==
  /\ pinPolled /\ pc = "hook"
  /\ hookPin' = OtherLevel(hookPin)
  /\ pinSince' = now
  /\ pinEdges' = 0
  /\ pinPolled' = FALSE
  /\ sent' = <<>>
  /\ toneRequest' = "none"
  /\ last' = Event("pin", "none", Broadcast, Broadcast, OtherLevel(hookPin))
  /\ UNCHANGED <<now, pc, currentState, hookVars, dialVars, collectVars,
                 netVars, sampleVars, configVars, dialPlan, parked, net>>

\* handleHookSwitch reading the pin
PinSample ==
  /\ handleHookSwitch(hookPin)
  /\ pinEdges' = IF hookAccepted(hookPin) THEN pinEdges + 1 ELSE pinEdges
  /\ pinPolled' = TRUE
  /\ UNCHANGED <<sampleVars, configVars, hookPin, pinSince, dialPlan, parked, net>>

HookNext ==
  \/ PinTick
  \/ PinChange
  \/ PinSample
  \/ RestStep /\ UNCHANGED <<sampleVars, configVars, worldVars>>

SpecHook == Init /\ [][HookNext]_vars

(***************************************************************************)
(* Two devices and the transport between them.  The variables of the       *)
(* module hold the device that runs; parked holds the other one, and       *)
(* Switch exchanges the two between two passes of loop().  Each device has *)
(* its directory filled by the Discovery of the other.  The user of the    *)
(* first device lifts the handset and dials the number of the second; the  *)
(* user of the second lifts the handset when the phone rings; either user  *)
(* replaces the handset during the call, the other when the call is over.  *)
(* The users act promptly: the clock advances only while an edge of the    *)
(* hook switch waits for its debounce window, so neither the completion    *)
(* timeout of the collector nor the discovery interval expires.            *)
(***************************************************************************)
\* the configured numbers of the two phones
PhoneA == 101
PhoneB == 102
\* their transport addresses
AddressA == 1
AddressB == 2

\* the pulse counts the first user dials: 1, 0 (ten pulses), 2
PlanToB == <<1, 10, 2>>

\* the device that runs, as parked keeps it
Running ==
  [now |-> now, pc |-> pc, currentState |-> currentState,
   currentHookState |-> currentHookState, lastHookState |-> lastHookState,
   lastDebounceTime |-> lastDebounceTime,
   pulseCount |-> pulseCount, isDialing |-> isDialing,
   digitReady |-> digitReady, dialingTimeout |-> dialingTimeout,
   lastDialedDigit |-> lastDialedDigit, lastDialState |-> lastDialState,
   lastPulseState |-> lastPulseState,
   lastPulseDebounce |-> lastPulseDebounce,
   lastDialDebounce |-> lastDialDebounce,
   collectedNumber |-> collectedNumber,
   lastDigitCollectedTime |-> lastDigitCollectedTime,
   isCollectingNumber |-> isCollectingNumber,
   peers |-> peers, currentCallPeer |-> currentCallPeer,
   lastDiscoveryTime |-> lastDiscoveryTime,
   currentConfig |-> currentConfig, ownAddress |-> ownAddress,
   hookPin |-> hookPin, dialPlan |-> dialPlan]

\* the device with this transport address
Device(address) == IF ownAddress = address THEN Running ELSE parked

\* a device after setup() with one record in its directory
DeviceAfterSetup(number, address, peerNumber, peerAddress, plan) ==
  [now |-> 0, pc |-> "hook", currentState |-> "IDLE",
   currentHookState |-> "LOW", lastHookState |-> "LOW",
   lastDebounceTime |-> 0,
   pulseCount |-> 0, isDialing |-> FALSE,
   digitReady |-> FALSE, dialingTimeout |-> 0,
   lastDialedDigit |-> -1, lastDialState |-> "HIGH",
   lastPulseState |-> "HIGH",
   lastPulseDebounce |-> 0,
   lastDialDebounce |-> 0,
   collectedNumber |-> <<>>,
   lastDigitCollectedTime |-> 0,
   isCollectingNumber |-> FALSE,
   peers |-> <<[number |-> peerNumber, macAddress |-> peerAddress,
                registered |-> TRUE]>>,
   currentCallPeer |-> NoPeer,
   lastDiscoveryTime |-> 0,
   currentConfig |-> [phoneNumber |-> number], ownAddress |-> address,
   hookPin |-> "LOW", dialPlan |-> plan]

\* the module's variables hold this device
Holds(device) ==
  /\ now = device.now /\ pc = device.pc
  /\ currentState = device.currentState
  /\ currentHookState = device.currentHookState
  /\ lastHookState = device.lastHookState
  /\ lastDebounceTime = device.lastDebounceTime
  /\ pulseCount = device.pulseCount /\ isDialing = device.isDialing
  /\ digitReady = device.digitReady
  /\ dialingTimeout = device.dialingTimeout
  /\ lastDialedDigit = device.lastDialedDigit
  /\ lastDialState = device.lastDialState
  /\ lastPulseState = device.lastPulseState
  /\ lastPulseDebounce = device.lastPulseDebounce
  /\ lastDialDebounce = device.lastDialDebounce
  /\ collectedNumber = device.collectedNumber
  /\ lastDigitCollectedTime = device.lastDigitCollectedTime
  /\ isCollectingNumber = device.isCollectingNumber
  /\ peers = device.peers /\ currentCallPeer = device.currentCallPeer
  /\ lastDiscoveryTime = device.lastDiscoveryTime
  /\ currentConfig = device.currentConfig /\ ownAddress = device.ownAddress
  /\ hookPin = device.hookPin /\ dialPlan = device.dialPlan

InitCall ==
  /\ rotaryNow = 0
  /\ Holds(DeviceAfterSetup(PhoneA, AddressA, PhoneB, AddressB, PlanToB))
  /\ parked = DeviceAfterSetup(PhoneB, AddressB, PhoneA, AddressA, <<>>)
  /\ toneRequest = "none"
  /\ sent = <<>>
  /\ last = [op |-> "setup", type |-> "none", fromNumber |-> Broadcast,
             toNumber |-> Broadcast, mac |-> 0, edge |-> "none",
             pre |-> "IDLE", prePeer |-> NoPeer]
  /\ pinSince = 0 /\ pinEdges = 0 /\ pinPolled = TRUE
  /\ net = {}

\* the other device runs: between two passes of loop() of this one
Switch ==
  /\ pc = "hook"
  /\ parked' = Running
  /\ now' = parked.now /\ pc' = parked.pc
  /\ currentState' = parked.currentState
  /\ currentHookState' = parked.currentHookState
  /\ lastHookState' = parked.lastHookState
  /\ lastDebounceTime' = parked.lastDebounceTime
  /\ pulseCount' = parked.pulseCount /\ isDialing' = parked.isDialing
  /\ digitReady' = parked.digitReady
  /\ dialingTimeout' = parked.dialingTimeout
  /\ lastDialedDigit' = parked.lastDialedDigit
  /\ lastDialState' = parked.lastDialState
  /\ lastPulseState' = parked.lastPulseState
  /\ lastPulseDebounce' = parked.lastPulseDebounce
  /\ lastDialDebounce' = parked.lastDialDebounce
  /\ collectedNumber' = parked.collectedNumber
  /\ lastDigitCollectedTime' = parked.lastDigitCollectedTime
  /\ isCollectingNumber' = parked.isCollectingNumber
  /\ peers' = parked.peers /\ currentCallPeer' = parked.currentCallPeer
  /\ lastDiscoveryTime' = parked.lastDiscoveryTime
  /\ currentConfig' = parked.currentConfig /\ ownAddress' = parked.ownAddress
  /\ hookPin' = parked.hookPin /\ dialPlan' = parked.dialPlan
  /\ toneRequest' = "none"
  /\ sent' = <<>>
  /\ last' = [op |-> "switch", type |-> "none", fromNumber |-> Broadcast,
              toNumber |-> Broadcast, mac |-> 0, edge |-> "none",
              pre |-> parked.currentState, prePeer |-> parked.currentCallPeer]
  /\ UNCHANGED <<pinSince, pinEdges, pinPolled, net, sampleVars>>

\* the signalling messages among these go on the air from this device; the
\* audio frames and the broadcasts are not followed
OnAir(out) ==
  {[src |-> ownAddress, mac |-> out[i].mac, msg |-> out[i].msg] :
     i \in {j \in 1..Len(out) :
              out[j].msg.type \notin {"MSG_AUDIO_DATA", "MSG_DISCOVERY"}}}

\* an edge of the hook switch waits for its debounce window
hookPending ==
  /\ lastHookState # currentHookState
  /\ ~(Sub32(now, lastDebounceTime) > debounceDelay)

CallTick ==
  /\ hookPending
  /\ pc = "hook"
  /\ now' = now + BigTick
  /\ sent' = <<>>
  /\ toneRequest' = "none"
  /\ last' = Event("tick", "none", Broadcast, Broadcast, "none")
  /\ UNCHANGED <<pc, currentState, hookVars, dialVars, collectVars, netVars,
                 sampleVars, configVars, worldVars>>

\* handleHookSwitch reading the pin; what it sends goes on the air
CallSample ==
  /\ handleHookSwitch(hookPin)
  /\ net' = net \cup OnAir(sent')
  /\ UNCHANGED <<sampleVars, configVars, pinVars, dialPlan, parked>>

\* the rest of loop(); esp_now_send succeeds
CallRest ==
  \E micReady \in BOOLEAN :
    /\ micReady \/ logicNextState(handleRotaryDial, TRUE) = "IN_CALL"
    /\ loopRest(TRUE, micReady)
    /\ net' = net \cup OnAir(sent')
    /\ UNCHANGED <<sampleVars, configVars, pinVars, dialPlan, parked>>

\* the transport delivers a message to the device that runs
Deliver ==
  \E m \in net :
    /\ m.mac = ownAddress
    /\ handleIncomingMessage(m.src, m.msg, MessageSize, TRUE)
    /\ net' = (net \ {m}) \cup OnAir(sent')
    /\ UNCHANGED <<sampleVars, configVars, pinVars, dialPlan, parked>>

\* the user moves the handset
MoveHandset(level) ==
  /\ pc = "hook"
  /\ hookPin' = level
  /\ sent' = <<>>
  /\ toneRequest' = "none"
  /\ last' = Event("pin", "none", Broadcast, Broadcast, level)
  /\ UNCHANGED <<now, pc, currentState, hookVars, dialVars, collectVars,
                 netVars, sampleVars, configVars, pinSince, pinEdges, pinPolled, dialPlan,
                 parked, net>>

\* the caller lifts the handset to dial
Lift ==
  /\ hookPin = "LOW" /\ currentState = "IDLE" /\ dialPlan # <<>>
  /\ MoveHandset("HIGH")

\* the called user lifts the handset of the ringing phone
Answer ==
  /\ hookPin = "LOW" /\ currentState = "RINGING"
  /\ MoveHandset("HIGH")

\* either user replaces the handset while both phones are in the call
HangUp ==
  /\ hookPin = "HIGH"
  /\ currentState = "IN_CALL" /\ parked.currentState = "IN_CALL"
  /\ MoveHandset("LOW")

\* the user replaces the handset of a phone whose call is over
Replace ==
  /\ hookPin = "HIGH" /\ currentHookState = "HIGH"
  /\ currentState = "IDLE"
  /\ MoveHandset("LOW")

\* the user turns the dial for the next digit of the plan
Dial ==
  /\ logicDialing /\ ~digitReady /\ dialPlan # <<>>
  /\ pc = "hook"
  /\ digitDialed(Head(dialPlan))
  /\ dialPlan' = Tail(dialPlan)
  /\ UNCHANGED <<sampleVars, configVars, pinVars, parked, net>>

CallNext ==
  \/ Switch
  \/ CallTick
  \/ CallSample
  \/ CallRest
  \/ Deliver
  \/ Lift
  \/ Answer
  \/ HangUp
  \/ Replace
  \/ Dial

SpecCall == InitCall /\ [][CallNext]_vars

\* the pulse counts of the three digits of PhoneA
PlanToA == <<1, 10, 1>>

\* both users mean to call each other
InitGlare ==
  /\ rotaryNow = 0
  /\ Holds(DeviceAfterSetup(PhoneA, AddressA, PhoneB, AddressB, PlanToB))
  /\ parked = DeviceAfterSetup(PhoneB, AddressB, PhoneA, AddressA, PlanToA)
  /\ pinSince = 0 /\ pinEdges = 0 /\ pinPolled = TRUE
  /\ toneRequest = "none"
  /\ sent = <<>>
  /\ last = [op |-> "setup", type |-> "none", fromNumber |-> Broadcast,
             toNumber |-> Broadcast, mac |-> 0, edge |-> "none",
             pre |-> "IDLE", prePeer |-> NoPeer]
  /\ net = {}

\* the two users lift their handsets, dial and answer; the handsets stay off
\* the hook
GlareNext ==
  \/ Switch
  \/ CallTick
  \/ CallSample
  \/ CallRest
  \/ Deliver
  \/ Lift
  \/ Answer
  \/ Dial

SpecGlare == InitGlare /\ [][GlareNext]_vars

\* a step of the device with this address
StepOf(address, step) == ownAddress = address /\ step

\* each device runs its loop, its clock advances, the transport delivers, and
\* the caller dials on; lifting and replacing a handset is the users' choice
DeviceFair(address) ==
  /\ SF_vars(StepOf(address, CallSample))
  /\ SF_vars(StepOf(address, CallRest))
  /\ SF_vars(StepOf(address, CallTick))
  /\ SF_vars(StepOf(address, Deliver))
  /\ SF_vars(StepOf(address, Dial))

FairSpecCall ==
  /\ SpecCall
  /\ SF_vars(Switch)
  /\ DeviceFair(AddressA)
  /\ DeviceFair(AddressB)

TypeOK ==
  /\ now \in 0..MaxTime
  /\ pc \in LoopSteps
  /\ currentState \in PhoneState
  /\ toneRequest \in ToneCalls
  /\ currentCallPeer \in Numbers \cup {NoPeer}
  /\ Len(peers) <= MAX_PEERS

(***************************************************************************)
(* Properties of the call state machine.                                   *)
(***************************************************************************)
CallStates == {"CALLING", "RINGING", "IN_CALL"}

\* the last step was handleIncomingMessage on a message of this type that
\* has the right size and is addressed to this phone
Received(type) ==
  /\ last.op = "msg"
  /\ last.type = type
  /\ last.toNumber = getPhoneNumber

\* the last step was handleHookSwitch and it accepted an edge to this level
HookEdge(level) == last.op = "hook" /\ last.edge = level

\* C1: an accepted on-hook edge leaves the phone in Idle, whatever state it
\* was in.
C1_HookReplaceLeadsToIdle ==
  HookEdge("LOW") => currentState = "IDLE"

C1_Witness ==
  /\ HookEdge("LOW")
  /\ last.pre = "CALL_FAILED"
  /\ currentState = "IDLE"

\* C2: a CallAccept addressed to this phone makes the state InCall when the
\* state is Calling, and changes neither the state nor the call peer in any
\* other state.
C2_AcceptOnlyWhenCalling ==
  Received("MSG_CALL_ACCEPT") =>
    IF last.pre = "CALLING"
      THEN currentState = "IN_CALL"
      ELSE currentState = last.pre /\ currentCallPeer = last.prePeer

\* C3: a CallRequest addressed to this phone in Ringing or InCall changes
\* neither the state nor the call peer.
C3_BusyRequestKeepsCall ==
  (Received("MSG_CALL_REQUEST") /\ last.pre \in {"RINGING", "IN_CALL"}) =>
    /\ currentState = last.pre
    /\ currentCallPeer = last.prePeer

C3_Witness ==
  /\ Received("MSG_CALL_REQUEST")
  /\ last.pre = "IN_CALL"
  /\ last.prePeer # NoPeer
  /\ currentState = "IN_CALL"

\* C4: a CallRequest addressed to this phone in Ringing or InCall is answered
\* with a CallBusy addressed to its sender, whoever the sender is.
C4_BusyAlwaysSent ==
  (Received("MSG_CALL_REQUEST") /\ last.pre \in {"RINGING", "IN_CALL"}) =>
    \E i \in 1..Len(sent) :
      sent[i].msg = Message("MSG_CALL_BUSY", getPhoneNumber, last.fromNumber)

\* C5: a CallEnd addressed to this phone leaves the phone in Idle with no
\* call peer, in every state and from every sender.
C5_CallEndForcesIdle ==
  Received("MSG_CALL_END") =>
    /\ currentState = "IDLE"
    /\ currentCallPeer = NoPeer

C5_Witness ==
  /\ Received("MSG_CALL_END")
  /\ last.pre = "OFF_HOOK"
  /\ currentState = "IDLE"
  /\ currentCallPeer = NoPeer

\* C6: a CallEnd addressed to this phone that arrives in Idle leaves the state
\* Idle and the call peer cleared, changes neither the peer directory nor the
\* dial buffer, and sends nothing; when the peer was already cleared (as after
\* a first delivery) nothing of the phone changes at all.
C6_CallEndInIdleIsNoOp ==
  [][ ( /\ last'.op = "msg"
        /\ last'.type = "MSG_CALL_END"
        /\ last'.toNumber = getPhoneNumber
        /\ currentState = "IDLE" )
      => /\ currentState' = "IDLE"
         /\ currentCallPeer' = NoPeer
         /\ peers' = peers
         /\ collectVars' = collectVars
         /\ sent' = <<>>
         /\ currentCallPeer = NoPeer =>
              UNCHANGED <<now, pc, currentState, hookVars, dialVars,
                          collectVars, netVars>> ]_vars

C6_Witness ==
  /\ Received("MSG_CALL_END")
  /\ last.pre = "IDLE"
  /\ last.prePeer = NoPeer
  /\ currentState = "IDLE"
  /\ currentCallPeer = NoPeer
  /\ sent = <<>>

\* the edges of the state machine; the dialing logic may take the two edges
\* OffHook -> Dialing -> Calling or CallFailed in one pass of loop()
ListedEdge(from, to) ==
  \/ HookEdge("HIGH") /\ from = "IDLE" /\ to = "OFF_HOOK"
  \/ HookEdge("HIGH") /\ from = "RINGING" /\ to = "IN_CALL"
  \/ HookEdge("LOW") /\ to = "IDLE"
  \/ last.op = "loop" /\ from = "OFF_HOOK" /\ to = "DIALING"
  \/ last.op = "loop" /\ from \in {"OFF_HOOK", "DIALING"}
                      /\ to \in {"CALLING", "CALL_FAILED"}
  \/ Received("MSG_CALL_ACCEPT") /\ from = "CALLING" /\ to = "IN_CALL"
  \/ Received("MSG_CALL_REJECT") /\ from = "CALLING" /\ to = "CALL_FAILED"
  \/ Received("MSG_CALL_BUSY") /\ from = "CALLING" /\ to = "CALL_BUSY"
  \/ Received("MSG_CALL_REQUEST") /\ from = "IDLE" /\ to = "RINGING"
  \/ Received("MSG_CALL_END") /\ to = "IDLE"

\* C7: every change of the phone state is one of the listed edges.
C7_OnlyListedEdges ==
  currentState # last.pre => ListedEdge(last.pre, currentState)

\* C8 as stated: in Calling a CallReject addressed to this phone gives
\* CallFailed and a CallBusy gives CallBusy.
C8_RejectGivesCallFailed ==
  /\ (Received("MSG_CALL_REJECT") /\ last.pre = "CALLING")
       => currentState = "CALL_FAILED"
  /\ (Received("MSG_CALL_BUSY") /\ last.pre = "CALLING")
       => currentState = "CALL_BUSY"

\* C8 amended: in Calling a CallReject addressed to this phone gives Idle and
\* a CallBusy gives CallBusy.
C8_RejectGivesIdle ==
  /\ (Received("MSG_CALL_REJECT") /\ last.pre = "CALLING")
       => currentState = "IDLE"
  /\ (Received("MSG_CALL_BUSY") /\ last.pre = "CALLING")
       => currentState = "CALL_BUSY"

C8_Witness ==
  /\ Received("MSG_CALL_REJECT")
  /\ last.pre = "CALLING"
  /\ currentState = "IDLE"

\* C9: a CallReject or CallBusy addressed to this phone that arrives when the
\* state is not Calling changes neither the state nor the call peer.
C9_StaleRejectBusyIgnored ==
  ( /\ Received("MSG_CALL_REJECT") \/ Received("MSG_CALL_BUSY")
    /\ last.pre # "CALLING" )
  => /\ currentState = last.pre
     /\ currentCallPeer = last.prePeer

\* C10: a call peer is recorded only in Calling, Ringing and InCall.
C10_PeerOnlyDuringCall ==
  currentCallPeer # NoPeer => currentState \in CallStates

\* the step is handleIncomingMessage on a message of the right size that is
\* not a Discovery and is addressed to another number
NotForUsStep ==
  /\ last'.op = "msg"
  /\ last'.type # "MSG_DISCOVERY"
  /\ last'.toNumber # getPhoneNumber

\* C11: a message other than a Discovery that is addressed to another number
\* changes neither the phone state, the call peer nor the peer directory, and
\* nothing is sent in answer.
C11_NotForUsIgnored ==
  [][ NotForUsStep =>
        /\ UNCHANGED <<currentState, currentCallPeer, peers>>
        /\ sent' = <<>> ]_vars

C11_Witness ==
  /\ last.op = "msg"
  /\ last.type = "MSG_CALL_END"
  /\ last.toNumber # getPhoneNumber
  /\ last.pre = "IN_CALL"
  /\ currentState = "IN_CALL"
  /\ currentCallPeer # NoPeer
  /\ sent = <<>>

\* the step is the rest of loop() and the dialing logic finds the number
\* complete
DialingCompletes ==
  /\ pc = "rest" /\ pc' = "hook"
  /\ logicDone(handleRotaryDial)

\* the number the dialing logic looks up when the step is DialingCompletes
CompletedNumber ==
  getDialedNumber(isDialingComplete(handleRotaryDial).number)

\* C14: when dialing completes with a number that has no record in the
\* directory, no CallRequest is sent, the state becomes CallFailed and the
\* error tone is requested; an on-hook edge accepted in CallFailed gives Idle.
C14_PeerNotFoundFails ==
  /\ [][ (DialingCompletes /\ FindPeer(CompletedNumber) = 0) =>
           /\ currentState' = "CALL_FAILED"
           /\ toneRequest' = "playErrorTone"
           /\ \A i \in 1..Len(sent') : sent'[i].msg.type # "MSG_CALL_REQUEST"
           /\ currentCallPeer' = currentCallPeer ]_vars
  /\ [](HookEdge("LOW") /\ last.pre = "CALL_FAILED" => currentState = "IDLE")

C14_Witness ==
  /\ last.op = "loop"
  /\ last.pre \in {"OFF_HOOK", "DIALING"}
  /\ peers = <<>>
  /\ currentState = "CALL_FAILED"
  /\ toneRequest = "playErrorTone"
  /\ sent = <<>>

\* C19: the only step that takes the phone out of CallFailed or CallBusy is
\* an accepted on-hook edge, which gives Idle.
C19_TerminalUntilHangup ==
  (last.pre \in {"CALL_FAILED", "CALL_BUSY"} /\ currentState # last.pre) =>
    HookEdge("LOW") /\ currentState = "IDLE"

\* C20: an on-hook edge accepted in Ringing, Calling, InCall, CallFailed or
\* CallBusy sends a CallEnd to the recorded call peer when there is one, and
\* sends no CallEnd when there is none.
C20_HangupSendsCallEnd ==
  ( /\ HookEdge("LOW")
    /\ last.pre \in {"RINGING", "CALLING", "IN_CALL", "CALL_FAILED",
                     "CALL_BUSY"} )
  => IF last.prePeer # NoPeer
       THEN \E i \in 1..Len(sent) :
              sent[i].msg = Message("MSG_CALL_END", getPhoneNumber, last.prePeer)
       ELSE \A i \in 1..Len(sent) : sent[i].msg.type # "MSG_CALL_END"

\* C12: once a Discovery from number n sent from address a is stored in the
\* directory, the lookup of n that sendCallRequest uses resolves to address a,
\* whatever was announced before.
C12_DiscoveryRoundTrip ==
  ( /\ last.op = "msg"
    /\ last.type = "MSG_DISCOVERY"
    /\ FindMac(last.mac) # 0 )
  => /\ FindPeer(last.fromNumber) # 0
     /\ peers[FindPeer(last.fromNumber)].macAddress = last.mac

\* the step is onDialInterrupt accepting the return of the dial to rest
DialReturns ==
  /\ last'.op = "dial"
  /\ isDialing /\ ~isDialing'

\* C15: when the dial returns to rest after c pulses were counted, c in
\* 1..10, the digit getDialedDigit makes available is c mod 10.
C15_DigitIsCountMod10 ==
  [][ (DialReturns /\ pulseCount \in 1..10) =>
        getDialedDigit([digitReady |-> digitReady',
                        lastDialedDigit |-> lastDialedDigit'])
          = pulseCount % 10 ]_vars

C15_Witness ==
  /\ last.op = "dial"
  /\ ~isDialing
  /\ pulseCount = 10
  /\ getDialedDigit([digitReady |-> digitReady,
                     lastDialedDigit |-> lastDialedDigit]) = 0

InCallWith(address, number) ==
  /\ Device(address).currentState = "IN_CALL"
  /\ Device(address).currentCallPeer = number

BothInCall ==
  InCallWith(AddressA, PhoneB) /\ InCallWith(AddressB, PhoneA)

\* the user of the first phone has lifted the handset and not yet dialed
CallerLifted ==
  /\ Device(AddressA).hookPin = "HIGH"
  /\ Device(AddressA).dialPlan = PlanToB

C17_CallSetup ==
  /\ ( /\ CallerLifted
       /\ Device(AddressB).currentState = "IDLE"
       /\ Device(AddressB).hookPin = "LOW" )
     ~> ( /\ Device(AddressB).currentState = "RINGING"
          /\ Device(AddressB).currentCallPeer = PhoneA )
  /\ ( /\ Device(AddressB).currentState = "RINGING"
       /\ Device(AddressB).hookPin = "HIGH" )
     ~> BothInCall

C17_Witness ==
  /\ BothInCall
  /\ Device(AddressA).hookPin = "HIGH"
  /\ Device(AddressB).hookPin = "HIGH"
  /\ net = {}

\* the CallEnd of the device that runs to the other device is on the air
CallEndOnAir ==
  [src |-> ownAddress, mac |-> parked.ownAddress,
   msg |-> Message("MSG_CALL_END", getPhoneNumber,
                   parked.currentConfig.phoneNumber)] \in net

\* C18: when the handset of either phone is replaced while both are in the
\* call with each other, the on-hook edge accepted in InCall gives Idle and
\* puts a CallEnd to the other phone on the air, and both phones come to Idle.
C18_HangUpEndsCall ==
  /\ []((HookEdge("LOW") /\ last.pre = "IN_CALL")
          => currentState = "IDLE" /\ CallEndOnAir)
  /\ ( /\ BothInCall
       /\ \/ Device(AddressA).hookPin = "LOW"
          \/ Device(AddressB).hookPin = "LOW" )
     ~> ( /\ Device(AddressA).currentState = "IDLE"
          /\ Device(AddressB).currentState = "IDLE" )

C18_Witness ==
  /\ Received("MSG_CALL_END")
  /\ last.pre = "IN_CALL"
  /\ hookPin = "HIGH"
  /\ currentState = "IDLE"
  /\ parked.currentState = "IDLE"
  /\ parked.hookPin = "LOW"

\* C21: an off-hook edge accepted in Ringing sends a CallAccept addressed to
\* the recorded caller and gives InCall with that caller as call peer.
C21_AnswerSendsAccept ==
  (HookEdge("HIGH") /\ last.pre = "RINGING") =>
    /\ currentState = "IN_CALL"
    /\ currentCallPeer = last.prePeer
    /\ \E i \in 1..Len(sent) :
         sent[i].msg = Message("MSG_CALL_ACCEPT", getPhoneNumber, last.prePeer)

\* the dial buffer is as resetDialedNumber leaves it
BufferReset == collectedNumber = <<>> /\ ~isCollectingNumber

\* C22 as stated: whenever a step has returned the state to Idle, a pass of
\* loop() ends after it with the dial buffer reset.
C22_IdleLeadsToReset ==
  (last.pre # "IDLE" /\ currentState = "IDLE")
    ~> (last.op = "loop" /\ BufferReset)

\* C22 amended: whenever a pass of loop() ends with the state Idle, the dial
\* buffer is reset.
C22_IdleLoopResetsBuffer ==
  (last.op = "loop" /\ currentState = "IDLE") => BufferReset

C22_Witness ==
  /\ last.op = "loop"
  /\ last.pre = "IDLE"
  /\ currentState = "IDLE"
  /\ currentHookState = "HIGH"
  /\ BufferReset

\* the messages of this type among those sent by the last step
SentOfType(out, type) == {i \in 1..Len(out) : out[i].msg.type = type}

\* C23: in every pass of loop(), whatever the phone state, updateNetwork
\* broadcasts a Discovery carrying this phone's number when more than the
\* discovery interval has passed since the last broadcast, and restarts the
\* interval; otherwise it broadcasts nothing.  Outside the dialing logic the
\* pass changes neither the phone state nor the call peer.
C23_DiscoveryEveryInterval ==
  [][ (pc = "rest" /\ pc' = "hook") =>
        /\ IF now - lastDiscoveryTime > DISCOVERY_INTERVAL
             THEN /\ \E i \in SentOfType(sent', "MSG_DISCOVERY") :
                       /\ sent'[i].msg.fromNumber = getPhoneNumber
                       /\ sent'[i].msg.toNumber = Broadcast
                       /\ sent'[i].mac = "FF:FF:FF:FF:FF:FF"
                  /\ lastDiscoveryTime' = now
             ELSE /\ SentOfType(sent', "MSG_DISCOVERY") = {}
                  /\ lastDiscoveryTime' = lastDiscoveryTime
        /\ currentState \notin {"OFF_HOOK", "DIALING"} =>
             UNCHANGED <<currentState, currentCallPeer>> ]_vars

C23_Witness ==
  /\ last.op = "loop"
  /\ last.pre = "CALL_BUSY"
  /\ currentState = "CALL_BUSY"
  /\ SentOfType(sent, "MSG_DISCOVERY") # {}
  /\ lastDiscoveryTime = now
  /\ now > 2 * DISCOVERY_INTERVAL

\* C24: a pass of loop() that ends in CallBusy requests the busy tone, one
\* that ends in CallFailed the error tone, and the ringback tone is requested
\* only by a pass that ends in Calling.
C24_BusyToneInCallBusy ==
  last.op = "loop" =>
    /\ currentState = "CALL_BUSY" => toneRequest = "playBusyTone"
    /\ currentState = "CALL_FAILED" => toneRequest = "playErrorTone"
    /\ toneRequest = "playRingbackTone" => currentState = "CALLING"

\* the step is handleIncomingMessage on a Discovery of the right size
DiscoveryReceived == last'.op = "msg" /\ last'.type = "MSG_DISCOVERY"

\* C25: the directory never holds more than MAX_PEERS records, and a Discovery
\* from an address without a record that arrives when MAX_PEERS records are
\* stored changes neither the records, the phone state nor the call peer.
C25_DirectoryBounded ==
  /\ [](Len(peers) <= MAX_PEERS)
  /\ [][ ( /\ DiscoveryReceived
           /\ Len(peers) = MAX_PEERS
           /\ FindMac(last'.mac) = 0 )
         => /\ peers' = peers
            /\ UNCHANGED <<currentState, currentCallPeer>> ]_vars

C25_Witness ==
  /\ last.op = "msg"
  /\ last.type = "MSG_DISCOVERY"
  /\ FindMac(last.mac) = 0
  /\ Len(peers) = MAX_PEERS
  /\ last.pre = "RINGING"
  /\ currentState = "RINGING"

\* C26: no two records of the peer directory carry the same phone number.
C26_UniqueByNumber ==
  \A i, j \in 1..Len(peers) :
    i # j => peers[i].number # peers[j].number

\* C27: a payload whose length is not the size of a Message changes neither
\* the phone state, the call peer nor the peer directory, and nothing is sent,
\* whatever its content.
C27_WrongSizeDropped ==
  [][ last'.op = "badmsg" =>
        /\ UNCHANGED <<currentState, currentCallPeer, peers>>
        /\ sent' = <<>> ]_vars

C27_Witness ==
  /\ last.op = "badmsg"
  /\ last.pre = "RINGING"
  /\ currentState = "RINGING"
  /\ currentCallPeer # NoPeer
  /\ Len(peers) = 1
  /\ sent = <<>>

\* loop() is about to call isDialingComplete
CollectorCalled == pc = "rest" /\ logicDialing

\* the digit the decoder holds ready when the collector is called, -1 for none
ReadyDigit ==
  IF handleRotaryDial.digitReady THEN handleRotaryDial.lastDialedDigit ELSE -1

\* the collected number and the time of the last collected digit once a ready
\* digit is taken in
NumberSoFar ==
  IF isCollectingNumber /\ ReadyDigit >= 0
    THEN Append(collectedNumber, ReadyDigit)
    ELSE collectedNumber

LastDigitTime ==
  IF isCollectingNumber /\ ReadyDigit >= 0 THEN now ELSE lastDigitCollectedTime

\* C28: isDialingComplete reports completion exactly when the collector is
\* active and either the collected number has MAX_DIGITS digits or it is not
\* empty and DIAL_COMPLETE_TIMEOUT has passed since the last collected digit;
\* with an empty number it never reports completion.
C28_CompleteExactlyWhen ==
  CollectorCalled =>
    /\ isDialingComplete(handleRotaryDial).complete <=>
         /\ isCollectingNumber
         /\ \/ Len(NumberSoFar) >= MAX_DIGITS
            \/ /\ Len(NumberSoFar) > 0
               /\ now - LastDigitTime >= DIAL_COMPLETE_TIMEOUT
    /\ NumberSoFar = <<>> => ~isDialingComplete(handleRotaryDial).complete

C28_Witness ==
  /\ CollectorCalled
  /\ isCollectingNumber
  /\ Len(collectedNumber) = 1
  /\ ReadyDigit = -1
  /\ now - lastDigitCollectedTime >= DIAL_COMPLETE_TIMEOUT
  /\ isDialingComplete(handleRotaryDial).complete

\* the step is the rest of loop(), which begins with handleRotaryDial
RotaryHandled == pc = "rest" /\ pc' = "hook"

\* after the step the digit is ready for the collector, or the collector has
\* taken it in during the same pass of loop()
DigitPublished(digit) ==
  \/ digitReady' /\ lastDialedDigit' = digit
  \/ /\ logicDialing /\ isCollectingNumber
     /\ \/ collectedNumber' = Append(collectedNumber, digit)
        \/ /\ logicDone(handleRotaryDial)
           /\ CompletedNumber = toInt(Append(collectedNumber, digit))

\* after the step no digit is ready and the collector has taken none in
NoDigitPublished ==
  /\ ~digitReady'
  /\ collectedNumber' = collectedNumber \/ collectedNumber' = <<>>

\* handleRotaryDial ends a rotation that has seen no pulse for longer than
\* this time, with the digit of the pulses counted so far
ForcedAfter(timeout) ==
  (RotaryHandled /\ isDialing /\ now - dialingTimeout > timeout) =>
    /\ ~isDialing'
    /\ IF pulseCount > 0 THEN DigitPublished(pulseCount % 10)
                         ELSE NoDigitPublished

C30_RingingOnlyFromIdle ==
  ( /\ Received("MSG_CALL_REQUEST")
    /\ last.pre \in {"OFF_HOOK", "DIALING", "CALLING", "CALL_FAILED",
                     "CALL_BUSY"} )
  => /\ currentState # "RINGING"
     /\ currentCallPeer = last.prePeer

\* C31: the only steps that take the phone out of Calling are a received
\* CallAccept, CallReject, CallBusy or CallEnd addressed to it and an accepted
\* on-hook edge; the passing of time and the passes of loop() leave it there.
C31_CallingLeftOnlyByAnswer ==
  (last.pre = "CALLING" /\ currentState # "CALLING") =>
    \/ Received("MSG_CALL_ACCEPT")
    \/ Received("MSG_CALL_REJECT")
    \/ Received("MSG_CALL_BUSY")
    \/ Received("MSG_CALL_END")
    \/ HookEdge("LOW")

\* the step is handleIncomingMessage on the message, from the address, that
\* the step before it handled
SameMessageAgain ==
  /\ last.op = "msg" /\ last'.op = "msg"
  /\ last'.type = last.type
  /\ last'.fromNumber = last.fromNumber
  /\ last'.toNumber = last.toNumber
  /\ last'.mac = last.mac

\* the first delivery of a Discovery stored no record although there was room:
\* esp_now_add_peer failed
RegistrationFailed ==
  /\ last.type = "MSG_DISCOVERY"
  /\ FindMac(last.mac) = 0
  /\ Len(peers) < MAX_PEERS

CollectorActive == logicDialing /\ isCollectingNumber

\* the step is a pass of loop() in which the collector takes in the digit the
\* decoder holds ready
ReadyDigitTaken ==
  /\ RotaryHandled
  /\ \/ collectedNumber' = Append(collectedNumber, lastDialedDigit)
     \/ /\ logicDone(handleRotaryDial)
        /\ CompletedNumber = toInt(Append(collectedNumber, lastDialedDigit))

\* C33: a digit the decoder holds ready while the collector is active stays
\* ready, with its value, until a pass of loop() appends it to the collected
\* number; no step of an interrupt handler takes it away or replaces it.
C33_DigitHandedOver ==
  [][ (digitReady /\ CollectorActive) =>
        \/ digitReady' /\ lastDialedDigit' = lastDialedDigit
        \/ ReadyDigitTaken ]_vars

\* C34: when loop() writes the state that ends a branch it entered on a test
\* of the state (answering a ringing call; calling or failing after the
\* dialing is complete), the state is still the one it tested: no transition
\* of the receive callback made in between is overwritten.
C34_LoopCommitsTestedState ==
  [][ /\ (pc = "answer" /\ pc' = "rest") => currentState = "RINGING"
      /\ (pc \in {"calling", "failing"} /\ pc' = "hook") => logicDialing ]_vars

\* C35: whenever the debounced hook state is on-hook (LOW), the phone is in
\* Idle or Ringing.
C35_OnHookIsIdleOrRinging ==
  currentHookState = "LOW" => currentState \in {"IDLE", "RINGING"}

\* C36: getDialedDigit returns -1 or a digit from 0 to 9 whatever the number
\* of pulses counted, and a pass of loop() in which the collector takes a
\* digit makes the collected number one character longer.
C36_DigitIsOneCharacter ==
  /\ [](getDialedDigit([digitReady |-> digitReady,
                       lastDialedDigit |-> lastDialedDigit]) \in {-1} \cup 0..9)
  /\ [][ (RotaryHandled /\ CollectorActive
          /\ isDialingComplete(handleRotaryDial).took) =>
            Len(isDialingComplete(handleRotaryDial).number)
              = Len(collectedNumber) + 1 ]_vars

\* the last step was handleHookSwitch accepting the lift of the handset in
\* Idle, which calls startDialing
LiftAccepted == HookEdge("HIGH") /\ last.pre = "IDLE"

\* C37: the rest of the pass of loop() that accepted the lift, with no
\* interrupt in between and so no digit dialed since the lift, collects
\* nothing: a digit completed before the lift is not in the new number.
C37_NothingCollectedBeforeDialing ==
  [][ (LiftAccepted /\ RotaryHandled) => collectedNumber' = <<>> ]_vars

\* C38: handleRotaryDial ends a rotation by the safety fallback only when no
\* pulse was seen for longer than the safety timeout: at that step more than
\* SAFETY_TIMEOUT_MS has passed on the clock since dialingTimeout was stored.
C38_ForcedOnlyAfterTimeout ==
  [][ (pc = "rotary" /\ pc' = "hook" /\ isDialing /\ ~isDialing') =>
        now - dialingTimeout > SAFETY_TIMEOUT_MS ]_vars

\* C39: a CallAccept received in Calling from a number other than the
\* recorded call peer leaves the state and the call peer as they are.
C39_AcceptOnlyFromCallPeer ==
  [][ (/\ last'.op = "msg" /\ last'.type = "MSG_CALL_ACCEPT"
       /\ last'.toNumber = getPhoneNumber
       /\ currentState = "CALLING"
       /\ last'.fromNumber # currentCallPeer) =>
        UNCHANGED <<currentState, currentCallPeer>> ]_vars

\* both phones ring with the other one as caller while both handsets are off
\* the hook
GlareDeadlock ==
  /\ currentState = "RINGING" /\ parked.currentState = "RINGING"
  /\ {currentCallPeer, parked.currentCallPeer} = {PhoneA, PhoneB}
  /\ currentCallPeer # currentConfig.phoneNumber
  /\ currentHookState = "HIGH" /\ parked.currentHookState = "HIGH"

\* C40: when two phones that know each other dial each other, the state in
\* which both are Ringing with the other as caller and both handsets are
\* off-hook is never reached.
C40_NoGlareDeadlock == ~GlareDeadlock

====
